---- MODULE Spec2Model ----
(***************************************************************************)
(* A model of deploy_bot.py: the deployment pipeline deploy_web_app, the   *)
(* command executor execute_linux_cmd, the advisor ai_troubleshoot, the    *)
(* notifier send_wechat_notification and the request handler deploy_web,   *)
(* all running on one asyncio event loop.                                  *)
(*                                                                         *)
(* Text is a sequence of tokens (strings).  An f-string is the              *)
(* concatenation of its literal parts and its interpolated values, so a    *)
(* value interpolated into a text is contained in that text.  The Chinese  *)
(* literals of the source are written as ASCII tokens.                     *)
(***************************************************************************)
EXTENDS Integers, Sequences, FiniteSets, TLC

\* ------------------------------------------------------------------ bounds
MaxTasks == 2          \* pipeline tasks the handler may spawn
TickLen == 10          \* seconds of wall-clock time one Tick step lets pass
MaxOverrun == 30       \* seconds past a deadline the model still follows
Eps == 1               \* the "small epsilon" of scheduling latency, seconds

\* --------------------------------------------------------- program constants
TIMEOUT == 30          \* asyncio.wait_for(..., timeout=30)

SERVER_PUBLIC_IP == "203.0.113.7"

git_error_keywords ==
    {"fatal:", "error:", "Repository not found", "Could not resolve host",
     "Permission denied"}

Tasks == 1..MaxTasks

\* ------------------------------------------------------------------ inputs
\* A name or an address is any text; some contain a classifier keyword.
AppNames == {<<"shop">>, <<"error:", "page">>}
RepoUrls == {<<"https://git.example/shop.git">>, <<"/srv/git/", "fatal:", "reports.git">>}
Ports == {8000, 8001}
Requests == [app_name : AppNames, repo_url : RepoUrls, port : Ports]
NoReq == [app_name |-> <<>>, repo_url |-> <<>>, port |-> 0]

\* loop.time() readings at which a request is accepted, in tenths of a second
LoopTimes == {1204}

\* What a subprocess can do: complete with captured stdout and stderr, run
\* past the deadline, or fail to spawn / communicate with an exception text.
Completed(out, err) == [kind |-> "ok", stdout |-> out, stderr |-> err, exc |-> <<>>]
TimedOut == [kind |-> "timeout", stdout |-> <<>>, stderr |-> <<>>, exc |-> <<>>]
Faulted(e) == [kind |-> "fault", stdout |-> <<>>, stderr |-> <<>>, exc |-> e]
NoOutcome == [kind |-> "none", stdout |-> <<>>, stderr |-> <<>>, exc |-> <<>>]

\* What git clone prints when the destination is taken, and when the
\* directory it was writing into is deleted under it.
DestinationTaken == <<"fatal:", "destination path already exists">>
WorkTreeLost == <<"Cloning into", "fatal:", "could not create work tree">>
RaceOutcomes == {Completed(<<>>, DestinationTaken), Completed(<<>>, WorkTreeLost)}

\* The words with which git reports that a clone failed.
GitFailureWords ==
    {"fatal:", "error:", "Repository not found", "Could not resolve host"}

CloneOutcomes ==
    {Completed(out, err) :
        out \in {<<>>, <<"done.">>, <<"fatal:", "bad object">>},
        err \in {<<>>, <<"Cloning into">>, <<"Fatal: odd">>,
                 <<"Cloning into", "Repository not found">>,
                 <<"Could not resolve host">>, <<"error:", "RPC failed">>}}
    \cup {TimedOut, Faulted(<<"No such file">>), Faulted(<<"Permission denied">>)}
    \cup RaceOutcomes

InstallOutcomes ==
    {Completed(<<"Successfully installed">>, <<>>),
     Completed(<<>>, <<"error:", "No matching distribution">>),
     TimedOut, Faulted(<<"No such file">>)}

StartOutcomes ==
    {Completed(<<>>, <<>>), Completed(<<>>, <<"cd: no such directory">>),
     TimedOut, Faulted(<<"No such file">>)}

ProbeOutcomes ==
    {Completed(<<"tcp LISTEN python3.9">>, <<>>),
     Completed(<<"tcp LISTEN python3.9">>, <<"Not all processes shown">>),
     Completed(<<>>, <<>>),
     Completed(<<>>, <<"netstat: command not found">>),
     TimedOut, Faulted(<<"No such file">>)}

RmOutcomes == {Completed(<<>>, <<>>), TimedOut, Faulted(<<"No such file">>)}

\* The chat-completion call answers, or raises (timeout, quota, transport).
AdvisorOutcomes ==
    {[kind |-> "ok", text |-> <<"check the repository address">>],
     [kind |-> "fault", text |-> <<"Request timed out">>]}

\* requests.post answers code 0, answers another code, or raises.
NotifierOutcomes == {"code0", "rejected", "fault"}

ExcTexts == {<<"MemoryError">>}

\* ------------------------------------------------------------------- state
VARIABLES
    pc,              \* task -> position of the deploy_web_app coroutine
    req,             \* task -> the DeployRequest it was spawned with
    task_id,         \* task -> its task_id text
    notify_content,  \* task -> the notification body accumulated so far
    outcomes,        \* task -> stage -> what the stage's subprocess did
    events,          \* task -> the calls made so far, in order
    elapsed,         \* task -> seconds since its current command started
    loop,            \* the task running a blocking call on the loop's thread, or 0
    acks,            \* the responses deploy_web has returned, in order
    accepted,        \* task -> the loop.time() reading its request was accepted at
    proc,            \* task -> stage -> what the stage's subprocess is doing
    tree             \* application name -> the deploy directory /opt/<name>

vars == <<pc, req, task_id, notify_content, outcomes, events, elapsed, loop, acks,
          accepted, proc, tree>>

Stages == {"Cloning", "Installing", "Starting", "Verifying"}

\* The subprocesses of a run: rm -rf ("Cleanup") and one per stage.  A
\* subprocess is launched, acts, and exits; git clone is running while it
\* writes the tree and broken once the tree was deleted under it.
ProcStages == {"Cleanup"} \cup Stages
Alive == {"launched", "running", "broken"}
Exited == {"done", "failed", "refused", "cleaned"}

NoTree == [state |-> "absent", by |-> 0]

Event(e, x, y) == [ev |-> e, a |-> x, b |-> y]

\* What a call hands to its caller: a returned value or a raised exception.
Returned(v) == [raised |-> FALSE, value |-> v]
Raised(e) == [raised |-> TRUE, value |-> e]

Min(a, b) == IF a < b THEN a ELSE b

\* -------------------------------------------------------------- formatting
\* f"{x:.0f}" of a time given in tenths: round to nearest, ties to even.
Fmt0(tenths) ==
    LET q == tenths \div 10
        r == tenths % 10
    IN  IF r > 5 \/ (r = 5 /\ q % 2 = 1) THEN q + 1 ELSE q

TaskId(r, now) == r.app_name \o <<"_", ToString(r.port), "_", ToString(Fmt0(now))>>

deploy_dir(r) == <<"/opt/">> \o r.app_name

rm_cmd(r) == <<"rm -rf">> \o deploy_dir(r)

pull_cmd(r) == <<"git clone">> \o r.repo_url \o deploy_dir(r)

install_cmd(r) ==
    <<"cd">> \o deploy_dir(r)
        \o <<"&& python3.9 -m pip install -r requirements.txt --user">>

start_cmd(r) ==
    <<"cd">> \o deploy_dir(r)
        \o <<"&& nohup python3.9 -m gunicorn -w 4 -b 0.0.0.0:", ToString(r.port),
             "app:app >">>
        \o deploy_dir(r) \o <<"/app.log 2>&1 &">>

check_cmd(r) == <<"netstat -tulpn | grep :", ToString(r.port), "| grep python3.9">>

Header(id, r) ==
    <<"### deploy-task[">> \o id
        \o <<"]", "app:">> \o r.app_name \o <<"repo:">> \o r.repo_url
        \o <<"port:", ToString(r.port)>>

\* The access URL with the port left out.
AccessUrl_noport(r) == <<"http://", SERVER_PUBLIC_IP>>

AccessUrl(r) == <<"http://", SERVER_PUBLIC_IP, ":", ToString(r.port)>>

Title(kind, id) == <<kind, "[">> \o id \o <<"]">>

\* A classifier that knows only the first keyword of the list.
HasKeyword_first_only(text) == \E i \in DOMAIN text : text[i] = "fatal:"

\* any(keyword in text for keyword in git_error_keywords)
HasKeyword(text) == \E i \in DOMAIN text : text[i] \in git_error_keywords

\* ----------------------------------------------------------- the callees
\* execute_linux_cmd without its except Exception clause: a fault is raised.
execute_linux_cmd_unguarded(cmd, o) ==
    CASE o.kind = "ok" ->
            IF o.stderr # <<>>
            THEN Returned(<<"exec-failed:">> \o cmd \o <<"stderr:">> \o o.stderr)
            ELSE Returned(<<"exec-ok:">> \o cmd \o <<"stdout:">> \o o.stdout)
      [] o.kind = "timeout" -> Returned(<<"exec-timeout:">> \o cmd)
      [] OTHER -> Raised(o.exc)

\* execute_linux_cmd: every outcome of the subprocess becomes a returned text.
execute_linux_cmd(cmd, o) ==
    CASE o.kind = "ok" ->
            IF o.stderr # <<>>
            THEN Returned(<<"exec-failed:">> \o cmd \o <<"stderr:">> \o o.stderr)
            ELSE Returned(<<"exec-ok:">> \o cmd \o <<"stdout:">> \o o.stdout)
      [] o.kind = "timeout" -> Returned(<<"exec-timeout:">> \o cmd)
      [] OTHER -> Returned(<<"exec-exception:">> \o cmd \o <<"exception:">> \o o.exc)

\* ai_troubleshoot without its try/except: a transport fault is raised.
ai_troubleshoot_unguarded(error_info, a) ==
    IF a.kind = "ok" THEN Returned(a.text) ELSE Raised(a.text)

\* ai_troubleshoot: the answer, or a degraded text when the call raises.
ai_troubleshoot(error_info, a) ==
    IF a.kind = "ok"
    THEN Returned(a.text)
    ELSE Returned(<<"AI-troubleshoot-failed:">> \o a.text
                    \o <<"please troubleshoot manually">>)

\* send_wechat_notification without its try/except: a transport fault raises.
send_wechat_notification_unguarded(n) ==
    CASE n = "code0" -> Returned(<<"sent">>)
      [] n = "rejected" -> Returned(<<"send failed">>)
      [] OTHER -> Raised(<<"ConnectionError">>)

\* send_wechat_notification raising on a non-zero code, outside its try.
send_wechat_notification_strict(n) ==
    CASE n = "code0" -> Returned(<<"sent">>)
      [] n = "rejected" -> Raised(<<"delivery rejected">>)
      [] OTHER -> Returned(<<"send exception">>)

\* send_wechat_notification: every delivery outcome is printed and swallowed.
send_wechat_notification(n) ==
    CASE n = "code0" -> Returned(<<"sent">>)
      [] n = "rejected" -> Returned(<<"send failed">>)
      [] OTHER -> Returned(<<"send exception">>)

\* ------------------------------------------------------- the state machine
ExecPcs == {"rm", "clone", "install", "start", "verify"}
TryPcs == ExecPcs \cup {"sleep", "advise"}

Init ==
    /\ pc = [t \in Tasks |-> "idle"]
    /\ req = [t \in Tasks |-> NoReq]
    /\ task_id = [t \in Tasks |-> <<>>]
    /\ notify_content = [t \in Tasks |-> <<>>]
    /\ outcomes = [t \in Tasks |-> [s \in Stages |-> NoOutcome]]
    /\ events = [t \in Tasks |-> <<>>]
    /\ elapsed = [t \in Tasks |-> 0]
    /\ loop = 0
    /\ acks = <<>>
    /\ accepted = [t \in Tasks |-> 0]
    /\ proc = [t \in Tasks |-> [s \in ProcStages |-> "none"]]
    /\ tree = [a \in AppNames |-> NoTree]

\* The coroutine of task t moves on: new position, new body, the calls it
\* makes, and whether it keeps the loop's thread (lp = t) or suspends (lp = 0).
Step(t, newpc, nc, evs, lp) ==
    /\ pc' = [pc EXCEPT ![t] = newpc]
    /\ notify_content' = [notify_content EXCEPT ![t] = nc]
    /\ events' = [events EXCEPT ![t] = events[t] \o evs]
    /\ elapsed' = [elapsed EXCEPT ![t] = 0]
    /\ loop' = lp

\* A handler that sends the exception text alone, dropping the body so far.
Except_reset(t, nc, e, evs) ==
    LET body == <<"#### deploy-exception">> \o e
    IN  Step(t, "notify_exc", body,
             evs \o <<Event("notify", Title("deploy-exception", task_id[t]), body)>>, t)

\* except Exception as e: append the exception text, send the notification.
Except(t, nc, e, evs) ==
    LET body == nc \o <<"#### deploy-exception">> \o e
    IN  Step(t, "notify_exc", body,
             evs \o <<Event("notify", Title("deploy-exception", task_id[t]), body)>>, t)

\* wait_for without a timeout: it hands over when the subprocess is done.
CanResume_untimed(t, o) ==
    /\ loop = 0
    /\ o.kind # "timeout"

\* wait_for(communicate(), 30) hands over: the timeout once the deadline has
\* passed, the subprocess's own outcome before it; only when the loop is free.
CanResume(t, o) ==
    /\ loop = 0
    /\ (o.kind = "timeout") <=> (elapsed[t] >= TIMEOUT)

Record(t, stage, o) ==
    outcomes' = [outcomes EXCEPT ![t][stage] = o]

\* Whether git's own words report a failed clone.
GitReportsFailure(o) ==
    \E i \in DOMAIN (o.stdout \o o.stderr) : (o.stdout \o o.stderr)[i] \in GitFailureWords

\* What a git clone that ended in state st has printed.
GitSaid(st, o) ==
    /\ (st = "done") <=> ~GitReportsFailure(o)
    /\ (st = "refused") <=> (o.stderr = DestinationTaken)
    /\ (st = "cleaned") <=> (o.stderr = WorkTreeLost)

\* communicate() hands over captured output only of a subprocess that has
\* exited, and the output is what that subprocess printed; the exception is
\* that of a subprocess that could not be spawned.
Communicated(t, stage, o) ==
    /\ o.kind = "ok" =>
        /\ proc[t][stage] \in Exited
        /\ stage = "Cloning" => GitSaid(proc[t][stage], o)
    /\ o.kind = "fault" => proc[t][stage] = "launched"

Launched(evs, s) == \E i \in DOMAIN evs : evs[i].ev = "exec" /\ evs[i].b = <<s>>

\* The subprocesses of task t after the coroutine moved on from stage: the
\* command it started is launched; a subprocess whose wait timed out is left
\* as it is, nothing terminates it; one that could not be spawned is gone.
Handover(t, stage, o) ==
    LET new == SubSeq(events'[t], Len(events[t]) + 1, Len(events'[t]))
    IN  proc' = [proc EXCEPT ![t] = [s \in ProcStages |->
                    IF Launched(new, s) THEN "launched"
                    ELSE IF s = stage /\ o.kind = "fault" /\ proc[t][s] = "launched"
                    THEN "none"
                    ELSE proc[t][s]]]

\* deploy_web awaiting the pipeline instead of creating a task for it: the
\* pipeline is started, the answer is not given.
deploy_web_awaiting(r, now) ==
    /\ loop = 0
    /\ \A u \in Tasks : accepted[u] <= now
    /\ \E t \in Tasks :
        /\ pc[t] = "idle"
        /\ \A u \in Tasks : u < t => pc[u] # "idle"
        /\ pc' = [pc EXCEPT ![t] = "spawned"]
        /\ req' = [req EXCEPT ![t] = r]
        /\ task_id' = [task_id EXCEPT ![t] = TaskId(r, now)]
        /\ accepted' = [accepted EXCEPT ![t] = now]
    /\ UNCHANGED <<notify_content, outcomes, events, elapsed, loop, acks, proc, tree>>

\* deploy_web: make the task_id, create the task, answer at once.
deploy_web(r, now) ==
    /\ loop = 0
    /\ \A u \in Tasks : accepted[u] <= now
    /\ \E t \in Tasks :
        /\ pc[t] = "idle"
        /\ \A u \in Tasks : u < t => pc[u] # "idle"
        /\ pc' = [pc EXCEPT ![t] = "spawned"]
        /\ req' = [req EXCEPT ![t] = r]
        /\ task_id' = [task_id EXCEPT ![t] = TaskId(r, now)]
        /\ acks' = Append(acks, [code |-> 200, task_id |-> TaskId(r, now)])
        /\ accepted' = [accepted EXCEPT ![t] = now]
    /\ UNCHANGED <<notify_content, outcomes, events, elapsed, loop, proc, tree>>

\* deploy_web_app up to its first await: the header, step 1, rm -rf started.
Begin(t) ==
    /\ pc[t] = "spawned"
    /\ loop = 0
    /\ Step(t, "rm",
            Header(task_id[t], req[t]) \o <<"#### step1: pull code">>,
            <<Event("exec", rm_cmd(req[t]), <<"Cleanup">>)>>, 0)
    /\ Handover(t, "", NoOutcome)
    /\ UNCHANGED <<req, task_id, outcomes, acks, accepted, tree>>

\* rm -rf is back (its result is dropped); git clone started.
RmReturn(t, o) ==
    /\ pc[t] = "rm"
    /\ CanResume(t, o)
    /\ Communicated(t, "Cleanup", o)
    /\ LET r == execute_linux_cmd(rm_cmd(req[t]), o)
       IN  IF r.raised
           THEN Except(t, notify_content[t], r.value, <<>>)
           ELSE Step(t, "clone", notify_content[t],
                     <<Event("exec", pull_cmd(req[t]), <<"Cloning">>)>>, 0)
    /\ Handover(t, "Cleanup", o)
    /\ UNCHANGED <<req, task_id, outcomes, acks, accepted, tree>>

\* git clone is back: record it, classify it, advise or go on to install.
CloneReturn(t, o) ==
    /\ pc[t] = "clone"
    /\ CanResume(t, o)
    /\ Communicated(t, "Cloning", o)
    /\ Record(t, "Cloning", o)
    /\ LET r == execute_linux_cmd(pull_cmd(req[t]), o)
           pull_result == r.value
           nc == notify_content[t] \o pull_result
       IN  IF r.raised
           THEN Except(t, notify_content[t], r.value, <<>>)
           ELSE IF HasKeyword(pull_result)
           THEN Step(t, "advise", nc, <<Event("advise_call", pull_result, <<>>)>>, t)
           ELSE Step(t, "install", nc \o <<"#### step2: install dependencies">>,
                     <<Event("exec", install_cmd(req[t]), <<"Installing">>)>>, 0)
    /\ Handover(t, "Cloning", o)
    /\ UNCHANGED <<req, task_id, acks, accepted, tree>>

\* An install step that classifies its result the way the clone step does.
InstallReturn_classified(t, o) ==
    /\ pc[t] = "install"
    /\ CanResume(t, o)
    /\ Communicated(t, "Installing", o)
    /\ Record(t, "Installing", o)
    /\ LET r == execute_linux_cmd(install_cmd(req[t]), o)
           nc == notify_content[t] \o r.value
       IN  IF r.raised
           THEN Except(t, notify_content[t], r.value, <<>>)
           ELSE IF HasKeyword(r.value)
           THEN Step(t, "advise", nc, <<Event("advise_call", r.value, <<>>)>>, t)
           ELSE Step(t, "start", nc \o <<"#### step3: start service">>,
                     <<Event("exec", start_cmd(req[t]), <<"Starting">>)>>, 0)
    /\ Handover(t, "Installing", o)
    /\ UNCHANGED <<req, task_id, acks, accepted, tree>>

\* pip install is back: record it, start the service.
InstallReturn(t, o) ==
    /\ pc[t] = "install"
    /\ CanResume(t, o)
    /\ Communicated(t, "Installing", o)
    /\ Record(t, "Installing", o)
    /\ LET r == execute_linux_cmd(install_cmd(req[t]), o)
       IN  IF r.raised
           THEN Except(t, notify_content[t], r.value, <<>>)
           ELSE Step(t, "start",
                     notify_content[t] \o r.value \o <<"#### step3: start service">>,
                     <<Event("exec", start_cmd(req[t]), <<"Starting">>)>>, 0)
    /\ Handover(t, "Installing", o)
    /\ UNCHANGED <<req, task_id, acks, accepted, tree>>

\* the start command is back: record it, sleep 2 seconds.
StartReturn(t, o) ==
    /\ pc[t] = "start"
    /\ CanResume(t, o)
    /\ Communicated(t, "Starting", o)
    /\ Record(t, "Starting", o)
    /\ LET r == execute_linux_cmd(start_cmd(req[t]), o)
       IN  IF r.raised
           THEN Except(t, notify_content[t], r.value, <<>>)
           ELSE Step(t, "sleep", notify_content[t] \o r.value, <<>>, 0)
    /\ Handover(t, "Starting", o)
    /\ UNCHANGED <<req, task_id, acks, accepted, tree>>

\* the settle delay is over: step 4, the port probe started.
SleepReturn(t) ==
    /\ pc[t] = "sleep"
    /\ loop = 0
    /\ Step(t, "verify", notify_content[t] \o <<"#### step4: verify service">>,
            <<Event("exec", check_cmd(req[t]), <<"Verifying">>)>>, 0)
    /\ Handover(t, "", NoOutcome)
    /\ UNCHANGED <<req, task_id, outcomes, acks, accepted, tree>>

\* the probe is back: if check_result: success, else advise.
VerifyReturn(t, o) ==
    /\ pc[t] = "verify"
    /\ CanResume(t, o)
    /\ Communicated(t, "Verifying", o)
    /\ Record(t, "Verifying", o)
    /\ LET r == execute_linux_cmd(check_cmd(req[t]), o)
           check_result == r.value
           port == ToString(req[t].port)
           good == notify_content[t] \o <<"port", port, "listening">>
                       \o <<"#### deploy-succeeded", "visit:">> \o AccessUrl(req[t])
           bad == notify_content[t] \o <<"port", port, "not listening">>
           ctx == <<"start command:">> \o start_cmd(req[t])
                       \o <<"port", port, "not listening">>
       IN  IF r.raised
           THEN Except(t, notify_content[t], r.value, <<>>)
           ELSE IF check_result # <<>>
           THEN Step(t, "notify", good,
                     <<Event("notify", Title("deploy-succeeded", task_id[t]), good)>>, t)
           ELSE Step(t, "advise", bad, <<Event("advise_call", ctx, <<>>)>>, t)
    /\ Handover(t, "Verifying", o)
    /\ UNCHANGED <<req, task_id, acks, accepted, tree>>

\* ai_troubleshoot is back: append the advice, send the failure notification.
AdviseReturn(t, a) ==
    /\ pc[t] = "advise"
    /\ loop = t
    /\ LET error_info == events[t][Len(events[t])].a
           r == ai_troubleshoot(error_info, a)
           ai_suggest == r.value
           nc == notify_content[t] \o <<"#### AI-suggestion">> \o ai_suggest
       IN  IF r.raised
           THEN Except(t, notify_content[t], r.value,
                       <<Event("advise_ret", r.value, <<a.kind, "raised">>)>>)
           ELSE Step(t, "notify", nc,
                     <<Event("advise_ret", ai_suggest, <<a.kind, "returned">>),
                       Event("notify", Title("deploy-failed", task_id[t]), nc)>>, t)
    /\ UNCHANGED <<req, task_id, outcomes, acks, accepted, proc, tree>>

\* send_wechat_notification is back: the coroutine ends.  (Were it to raise
\* inside the try block, the handler would run; inside the handler, the
\* exception would leave the task.)
NotifyReturn(t, n) ==
    /\ pc[t] \in {"notify", "notify_exc"}
    /\ loop = t
    /\ LET r == send_wechat_notification(n)
       IN  IF ~r.raised
           THEN Step(t, "done", notify_content[t],
                     <<Event("notify_ret", r.value, <<n, "returned">>)>>, 0)
           ELSE IF pc[t] = "notify"
           THEN Except(t, notify_content[t], r.value,
                       <<Event("notify_ret", r.value, <<n, "raised">>)>>)
           ELSE Step(t, "crashed", notify_content[t],
                     <<Event("notify_ret", r.value, <<n, "raised">>)>>, 0)
    /\ UNCHANGED <<req, task_id, outcomes, acks, accepted, proc, tree>>

\* An exception raised inside the try block, by the pipeline's own code,
\* where the coroutine stands: the top-level handler takes over.
PipelineFault(t, e) ==
    /\ pc[t] \in TryPcs
    /\ loop = (IF pc[t] = "advise" THEN t ELSE 0)
    /\ Except(t, notify_content[t], e, <<>>)
    /\ UNCHANGED <<req, task_id, outcomes, acks, accepted, proc, tree>>

\* Wall-clock time passes for the commands that are running.  A deadline is
\* never stepped over, and once it has passed the loop, if free, resumes the
\* waiting coroutine before more time passes; a blocked loop resumes nobody.
Advance(e) ==
    IF e < TIMEOUT
    THEN Min(e + TickLen, TIMEOUT)
    ELSE Min(e + TickLen, TIMEOUT + MaxOverrun)

Tick ==
    /\ \E t \in Tasks : pc[t] \in ExecPcs /\ Advance(elapsed[t]) # elapsed[t]
    /\ loop = 0 => \A t \in Tasks : pc[t] \in ExecPcs => elapsed[t] < TIMEOUT
    /\ elapsed' = [t \in Tasks |->
                     IF pc[t] \in ExecPcs THEN Advance(elapsed[t]) ELSE elapsed[t]]
    /\ UNCHANGED <<pc, req, task_id, notify_content, outcomes, events, loop, acks,
                   accepted, proc, tree>>

\* ------------------------------------------------- what the subprocesses do
\* rm -rf removes the deploy directory, whoever wrote it; a clone that was
\* writing into it is broken from then on.
RmDeletes(t) ==
    /\ proc[t]["Cleanup"] = "launched"
    /\ tree' = [tree EXCEPT ![req[t].app_name] = NoTree]
    /\ proc' = [u \in Tasks |-> [s \in ProcStages |->
                  IF u = t /\ s = "Cleanup" THEN "done"
                  ELSE IF s = "Cloning" /\ proc[u][s] = "running"
                          /\ req[u].app_name = req[t].app_name
                  THEN "broken"
                  ELSE proc[u][s]]]
    /\ UNCHANGED <<pc, req, task_id, notify_content, outcomes, events, elapsed, loop,
                   acks, accepted>>

\* git clone looks at its destination: absent, it creates the directory and
\* starts writing; present, it refuses and exits.
GitStarts(t) ==
    /\ proc[t]["Cloning"] = "launched"
    /\ IF tree[req[t].app_name].state = "absent"
       THEN /\ tree' = [tree EXCEPT ![req[t].app_name] = [state |-> "partial", by |-> t]]
            /\ proc' = [proc EXCEPT ![t]["Cloning"] = "running"]
       ELSE /\ tree' = tree
            /\ proc' = [proc EXCEPT ![t]["Cloning"] = "refused"]
    /\ UNCHANGED <<pc, req, task_id, notify_content, outcomes, events, elapsed, loop,
                   acks, accepted>>

\* git clone exits.  A clone that finished leaves the complete tree.  A clone
\* that failed, of itself or because its tree was deleted, removes the
\* destination path on its way out, whatever is there by then.
GitExits(t, finished) ==
    /\ proc[t]["Cloning"] \in {"running", "broken"}
    /\ finished => proc[t]["Cloning"] = "running"
    /\ IF finished
       THEN /\ tree' = [tree EXCEPT ![req[t].app_name] = [state |-> "complete", by |-> t]]
            /\ proc' = [proc EXCEPT ![t]["Cloning"] = "done"]
       ELSE /\ tree' = [tree EXCEPT ![req[t].app_name] = NoTree]
            /\ proc' = [u \in Tasks |-> [s \in ProcStages |->
                          IF u = t /\ s = "Cloning"
                          THEN (IF proc[t][s] = "running" THEN "failed" ELSE "cleaned")
                          ELSE IF s = "Cloning" /\ proc[u][s] = "running"
                                  /\ req[u].app_name = req[t].app_name
                          THEN "broken"
                          ELSE proc[u][s]]]
    /\ UNCHANGED <<pc, req, task_id, notify_content, outcomes, events, elapsed, loop,
                   acks, accepted>>

\* pip, the start shell and the probe exit.
SubprocessExits(t, s) ==
    /\ s \in Stages \ {"Cloning"}
    /\ proc[t][s] = "launched"
    /\ proc' = [proc EXCEPT ![t][s] = "done"]
    /\ UNCHANGED <<pc, req, task_id, notify_content, outcomes, events, elapsed, loop,
                   acks, accepted, tree>>

Subprocess(t) ==
    \/ RmDeletes(t)
    \/ GitStarts(t)
    \/ \E finished \in BOOLEAN : GitExits(t, finished)
    \/ \E s \in Stages : SubprocessExits(t, s)

Spawned == {t \in Tasks : pc[t] # "idle"}

\* One pipeline run, with every input of the run drawn from its full set.
Pipeline(t) ==
    \/ Begin(t)
    \/ \E o \in RmOutcomes : RmReturn(t, o)
    \/ \E o \in CloneOutcomes : CloneReturn(t, o)
    \/ \E o \in InstallOutcomes : InstallReturn(t, o)
    \/ \E o \in StartOutcomes : StartReturn(t, o)
    \/ SleepReturn(t)
    \/ \E o \in ProbeOutcomes : VerifyReturn(t, o)
    \/ \E a \in AdvisorOutcomes : AdviseReturn(t, a)
    \/ \E n \in NotifierOutcomes : NotifyReturn(t, n)

Next ==
    \/ Spawned = {} /\ \E r \in Requests, now \in LoopTimes : deploy_web(r, now)
    \/ \E t \in Tasks : Pipeline(t)
    \/ \E t \in Tasks : Subprocess(t)
    \/ Tick

Spec == Init /\ [][Next]_vars

NextFault ==
    \/ Next
    \/ \E t \in Tasks, e \in ExcTexts : PipelineFault(t, e)

SpecFault == Init /\ [][NextFault]_vars

\* Two pipeline runs on the one loop, each input drawn from the outcomes that
\* decide the path: a clean or a failing clone, commands that finish or hang.
\* Both requests deploy the same application, so the runs share /opt/<name>.
SchedRequests == {q \in Requests : ~HasKeyword(pull_cmd(q)) /\ q.port = 8000}
SchedCloneOutcomes ==
    {Completed(<<>>, <<"Cloning into">>),
     Completed(<<>>, <<"Cloning into", "Repository not found">>), TimedOut}
        \cup RaceOutcomes
SchedStageOutcomes == {Completed(<<>>, <<>>), TimedOut}
SchedProbeOutcomes == {Completed(<<"tcp LISTEN python3.9">>, <<>>), Completed(<<>>, <<>>)}

NextSched ==
    \/ \E r \in SchedRequests, now \in LoopTimes : deploy_web(r, now)
    \/ \E t \in Tasks : Begin(t)
    \/ \E t \in Tasks : RmReturn(t, Completed(<<>>, <<>>))
    \/ \E t \in Tasks, o \in SchedCloneOutcomes : CloneReturn(t, o)
    \/ \E t \in Tasks, o \in SchedStageOutcomes : InstallReturn(t, o)
    \/ \E t \in Tasks : StartReturn(t, Completed(<<>>, <<>>))
    \/ \E t \in Tasks : SleepReturn(t)
    \/ \E t \in Tasks, o \in SchedProbeOutcomes : VerifyReturn(t, o)
    \/ \E t \in Tasks, a \in AdvisorOutcomes : AdviseReturn(t, a)
    \/ \E t \in Tasks : NotifyReturn(t, "code0")
    \/ \E t \in Tasks : Subprocess(t)
    \/ Tick

SpecSched == Init /\ [][NextSched]_vars

\* Two requests of any kind, accepted within a second or so of one another,
\* each run taking the path its clone decides; no command hangs.
PairTimes == {1196, 1204, 1207}
PairCloneOutcomes ==
    {Completed(<<>>, <<"Cloning into">>),
     Completed(<<>>, <<"Cloning into", "Repository not found">>)} \cup RaceOutcomes

NextPair ==
    \/ \E r \in Requests, now \in PairTimes : deploy_web(r, now)
    \/ \E t \in Tasks : Begin(t)
    \/ \E t \in Tasks : RmReturn(t, Completed(<<>>, <<>>))
    \/ \E t \in Tasks, o \in PairCloneOutcomes : CloneReturn(t, o)
    \/ \E t \in Tasks : InstallReturn(t, Completed(<<"Successfully installed">>, <<>>))
    \/ \E t \in Tasks : StartReturn(t, Completed(<<>>, <<>>))
    \/ \E t \in Tasks : SleepReturn(t)
    \/ \E t \in Tasks : VerifyReturn(t, Completed(<<"tcp LISTEN python3.9">>, <<>>))
    \/ \E t \in Tasks, a \in AdvisorOutcomes : AdviseReturn(t, a)
    \/ \E t \in Tasks : NotifyReturn(t, "code0")
    \/ \E t \in Tasks : Subprocess(t)

SpecPair == Init /\ [][NextPair]_vars

\* Two pipeline runs in the environment that is worst for termination: rm,
\* pip, the start shell and the probe never exit, and git clone exits before
\* its deadline or not at all.  The loop is fair to every coroutine that is
\* ready: a created task is started, an expired timer or deadline is served,
\* a blocking call that will return does return.
InTime(t) == pc[t] = "clone" /\ elapsed[t] < TIMEOUT

NextLive ==
    \/ \E r \in SchedRequests, now \in LoopTimes : deploy_web(r, now)
    \/ \E t \in Tasks : Begin(t)
    \/ \E t \in Tasks : RmReturn(t, TimedOut)
    \/ \E t \in Tasks, o \in SchedCloneOutcomes : CloneReturn(t, o)
    \/ \E t \in Tasks : InstallReturn(t, TimedOut)
    \/ \E t \in Tasks : StartReturn(t, TimedOut)
    \/ \E t \in Tasks : SleepReturn(t)
    \/ \E t \in Tasks : VerifyReturn(t, TimedOut)
    \/ \E t \in Tasks, a \in AdvisorOutcomes : AdviseReturn(t, a)
    \/ \E t \in Tasks : NotifyReturn(t, "code0")
    \/ \E t \in Tasks : InTime(t) /\ GitStarts(t)
    \/ \E t \in Tasks, finished \in BOOLEAN : InTime(t) /\ GitExits(t, finished)
    \/ Tick

Served(t) ==
    \/ Begin(t)
    \/ RmReturn(t, TimedOut)
    \/ CloneReturn(t, TimedOut)
    \/ InstallReturn(t, TimedOut)
    \/ StartReturn(t, TimedOut)
    \/ SleepReturn(t)
    \/ VerifyReturn(t, TimedOut)
    \/ \E a \in AdvisorOutcomes : AdviseReturn(t, a)
    \/ NotifyReturn(t, "code0")

SpecLive ==
    /\ Init /\ [][NextLive]_vars
    /\ WF_vars(Tick)
    /\ \A t \in Tasks : WF_vars(Served(t))

\* ------------------------------------------------------ reading the state
Notifs(t) == SelectSeq(events[t], LAMBDA e : e.ev = "notify")
AdviseCalls(t) == SelectSeq(events[t], LAMBDA e : e.ev = "advise_call")
AdviseRets(t) == SelectSeq(events[t], LAMBDA e : e.ev = "advise_ret")
NotifyRets(t) == SelectSeq(events[t], LAMBDA e : e.ev = "notify_ret")
Execs(t) == SelectSeq(events[t], LAMBDA e : e.ev = "exec")
Executed(t, stage) == \E i \in DOMAIN events[t] :
    events[t][i].ev = "exec" /\ events[t][i].b = <<stage>>

TitleKind(e) == e.a[1]
TitleKinds == {"deploy-succeeded", "deploy-failed", "deploy-exception"}

Contains(text, sub) ==
    \E i \in 0..(Len(text) - Len(sub)) : SubSeq(text, i + 1, i + Len(sub)) = sub

Finished(t) == pc[t] \in {"done", "crashed"}

\* The task's terminal status, read off the notification it ended with.
Status(t) ==
    IF pc[t] = "done" /\ Len(Notifs(t)) > 0
    THEN LET k == TitleKind(Notifs(t)[Len(Notifs(t))])
         IN  CASE k = "deploy-succeeded" -> "Succeeded"
               [] k = "deploy-failed" -> "Failed"
               [] OTHER -> "Errored"
    ELSE IF pc[t] = "crashed" THEN "Crashed" ELSE "Running"

\* ------------------------------------------------------------------ claims

\* C1: in every run of deploy_web_app, whatever the stage commands, the
\* advisor, the notifier and the pipeline's own code do, the notifier is
\* invoked at most once while the run lasts and exactly once by its end, with
\* a title that is the success, the failure or the exception title of the task.
C1_NotifiedExactlyOnce ==
    \A t \in Tasks :
        /\ Len(Notifs(t)) <= 1
        /\ Finished(t) => Len(Notifs(t)) = 1
        /\ \A i \in DOMAIN Notifs(t) :
            \E k \in TitleKinds : Notifs(t)[i].a = Title(k, task_id[t])

\* A run that ended although the notifier's transport raised.
C1_Witness ==
    \E t \in Tasks :
        /\ pc[t] = "done"
        /\ Len(Notifs(t)) = 1
        /\ NotifyRets(t)[1].b[1] = "fault"

\* The probe of the Verifying stage found no listening process: it completed
\* and grep printed nothing.
ProbeFoundNothing(t) ==
    /\ outcomes[t]["Verifying"].kind = "ok"
    /\ outcomes[t]["Verifying"].stdout = <<>>

\* The probe found the port bound by a python3.9 process: grep printed a line.
ProbeFoundListener(t) ==
    /\ outcomes[t]["Verifying"].kind = "ok"
    /\ outcomes[t]["Verifying"].stdout # <<>>

VerifyContext(r) ==
    <<"start command:">> \o start_cmd(r) \o <<"port", ToString(r.port), "not listening">>

\* C2: whenever the port probe finds no listening process, the advisor is
\* invoked with the start command and the port, no success notification is
\* sent, and the task ends Failed with the advice in its notification.
C2_UnboundPortFails ==
    \A t \in Tasks :
        ProbeFoundNothing(t) =>
            /\ \A i \in DOMAIN Notifs(t) : TitleKind(Notifs(t)[i]) # "deploy-succeeded"
            /\ \E i \in DOMAIN AdviseCalls(t) : AdviseCalls(t)[i].a = VerifyContext(req[t])
            /\ pc[t] = "done" => Status(t) = "Failed"

\* C3: whenever the port probe reports the port bound, the advisor is not
\* invoked and the one notification sent is the success notification, whose
\* body contains the access URL made of the public address and the request's
\* port; the task ends Succeeded.
C3_BoundPortSucceeds ==
    \A t \in Tasks :
        ProbeFoundListener(t) =>
            /\ AdviseCalls(t) = <<>>
            /\ Len(Notifs(t)) = 1
            /\ Notifs(t)[1].a = Title("deploy-succeeded", task_id[t])
            /\ Contains(Notifs(t)[1].b,
                        <<"http://", SERVER_PUBLIC_IP, ":", ToString(req[t].port)>>)
            /\ pc[t] = "done" => Status(t) = "Succeeded"

C3_Witness ==
    \E t \in Tasks :
        /\ ProbeFoundListener(t)
        /\ pc[t] = "done"
        /\ req[t].port = 8001

\* The keyword set as the claims give it, and a text containing one of them.
ClaimedKeywords ==
    {"fatal:", "error:", "Repository not found", "Could not resolve host",
     "Permission denied"}
MentionsKeyword(text) == \E i \in DOMAIN text : text[i] \in ClaimedKeywords

\* The text execute_linux_cmd keeps of a completed command: its error output,
\* or its standard output when the error output is empty.
Captured(o) == IF o.stderr # <<>> THEN o.stderr ELSE o.stdout

EventKinds(evs) == [i \in DOMAIN evs |-> evs[i].ev]
IsPrefix(p, q) == Len(p) <= Len(q) /\ SubSeq(q, 1, Len(p)) = p

\* What follows a classified clone failure: rm and clone were executed, then
\* the advisor is called with the clone result and returns, then the failure
\* notification is sent, and nothing else is executed.
FailedAtCloning(t) ==
    LET evs == events[t]
        rest == SubSeq(evs, 3, Len(evs))
    IN  /\ Len(evs) >= 3
        /\ IsPrefix(EventKinds(rest), <<"advise_call", "advise_ret", "notify", "notify_ret">>)
        /\ evs[3].a = execute_linux_cmd(pull_cmd(req[t]), outcomes[t]["Cloning"]).value
        /\ Len(evs) >= 5 => evs[5].a = Title("deploy-failed", task_id[t])
        /\ ~Executed(t, "Installing") /\ ~Executed(t, "Starting") /\ ~Executed(t, "Verifying")
        /\ pc[t] \in {"advise", "notify", "done"}
        /\ pc[t] = "done" => Len(evs) = 6 /\ Status(t) = "Failed"

C5_KeywordFreeStderrProceeds ==
    \A t \in Tasks :
        LET o == outcomes[t]["Cloning"]
        IN  (o.kind = "ok" /\ o.stderr # <<>> /\ ~MentionsKeyword(o.stderr))
                => /\ Len(events[t]) >= 3
                   /\ events[t][3] = Event("exec", install_cmd(req[t]), <<"Installing">>)

\* Where in the task's events the install command was started (0: nowhere).
InstallAt(t) ==
    IF Executed(t, "Installing")
    THEN CHOOSE i \in DOMAIN events[t] :
            events[t][i].ev = "exec" /\ events[t][i].b = <<"Installing">>
    ELSE 0

\* C6: once the install command has been started, the pipeline waits for it
\* and then, whatever its result, the very next call is the start command:
\* no advisor call and no notification come between.
C6_InstallNeverStops ==
    \A t \in Tasks :
        LET i == InstallAt(t)
        IN  i > 0 =>
              IF outcomes[t]["Installing"] = NoOutcome
              THEN pc[t] = "install" /\ i = Len(events[t])
              ELSE /\ i < Len(events[t])
                   /\ events[t][i + 1] = Event("exec", start_cmd(req[t]), <<"Starting">>)

C6_Witness ==
    \E t \in Tasks :
        /\ MentionsKeyword(outcomes[t]["Installing"].stderr)
        /\ Executed(t, "Starting")

StageCmd(stage, r) ==
    CASE stage = "Cloning" -> pull_cmd(r)
      [] stage = "Installing" -> install_cmd(r)
      [] stage = "Starting" -> start_cmd(r)
      [] OTHER -> check_cmd(r)

\* The outcome kind a result text tells its reader.
ResultKind(text) ==
    CASE Head(text) \in {"exec-ok:", "exec-failed:"} -> "ok"
      [] Head(text) = "exec-timeout:" -> "timeout"
      [] Head(text) = "exec-exception:" -> "fault"
      [] OTHER -> "unknown"

\* C7: for every stage command that has come back, whatever its subprocess
\* did, execute_linux_cmd returned a text and raised nothing into the
\* pipeline; the text tells the outcome kind (completed, timed out, fault),
\* and a fault's text carries the exception text.
C7_ExecutorNeverRaises ==
    \A t \in Tasks :
        /\ pc[t] \notin {"notify_exc", "crashed"}
        /\ \A s \in Stages :
            LET o == outcomes[t][s]
                r == execute_linux_cmd(StageCmd(s, req[t]), o)
            IN  o # NoOutcome =>
                  /\ ~r.raised
                  /\ ResultKind(r.value) = o.kind
                  /\ o.kind = "fault" => Contains(r.value, <<"exception:">> \o o.exc)
                  /\ s # "Verifying" => Contains(notify_content[t], r.value)

C7_Witness ==
    \E t \in Tasks :
        /\ outcomes[t]["Cloning"].kind = "fault"
        /\ outcomes[t]["Installing"].kind = "timeout"
        /\ outcomes[t]["Starting"].kind = "ok"
        /\ outcomes[t]["Starting"].stderr # <<>>

\* C8: a pipeline waiting for a command is resumed no later than the timeout
\* plus a small epsilon after the command was started, also while other tasks
\* run on the same loop: no pipeline is still waiting after that.
C8_ResumedByDeadline ==
    \A t \in Tasks : pc[t] \in ExecPcs => elapsed[t] <= TIMEOUT + Eps

C9_Caught(t) ==
    (\E i \in DOMAIN Notifs(t) : TitleKind(Notifs(t)[i]) = "deploy-exception")
        => /\ Len(Notifs(t)) = 1
           /\ Notifs(t)[1].b = notify_content[t]
           /\ pc[t] \in {"notify_exc", "done"}
           /\ pc[t] = "done" => Status(t) = "Errored"

C9_Handled(t) ==
    (pc[t] \in TryPcs /\ pc'[t] \notin TryPcs \cup {"notify"})
        => /\ pc'[t] = "notify_exc"
           /\ \E e \in ExcTexts :
                /\ notify_content'[t] = notify_content[t] \o <<"#### deploy-exception">> \o e
                /\ events'[t] = events[t]
                      \o <<Event("notify", Title("deploy-exception", task_id[t]),
                                 notify_content'[t])>>

\* C9: an exception raised inside the try block is caught by the top-level
\* handler: the body becomes the body accumulated so far with the exception
\* text appended, the exception notification is sent with it, it is the only
\* notification of the task, and the task ends Errored.
C9_ExceptionCaughtOnce ==
    /\ [](\A t \in Tasks : C9_Caught(t))
    /\ [][\A t \in Tasks : C9_Handled(t)]_vars

C9_Witness ==
    \E t \in Tasks :
        /\ pc[t] = "done"
        /\ Status(t) = "Errored"
        /\ Executed(t, "Starting")

AdvisorFaulted(t) ==
    \E i \in DOMAIN AdviseRets(t) : AdviseRets(t)[i].b[1] = "fault"

\* C10: when the advisor's transport faults, ai_troubleshoot returns a
\* degraded text naming the fault and asking for manual troubleshooting; the
\* advisor is not called again, the task does not become Errored, and the one
\* notification sent is the failure notification carrying that text.
C10_AdvisorFaultDegrades ==
    \A t \in Tasks :
        AdvisorFaulted(t) =>
            /\ Len(AdviseCalls(t)) = 1
            /\ Len(AdviseRets(t)) = 1
            /\ AdviseRets(t)[1].b[2] = "returned"
            /\ \E a \in AdvisorOutcomes :
                /\ a.kind = "fault"
                /\ AdviseRets(t)[1].a = <<"AI-troubleshoot-failed:">> \o a.text
                                            \o <<"please troubleshoot manually">>
            /\ Len(Notifs(t)) = 1
            /\ Notifs(t)[1].a = Title("deploy-failed", task_id[t])
            /\ Contains(Notifs(t)[1].b, AdviseRets(t)[1].a)
            /\ pc[t] \in {"notify", "done"}
            /\ pc[t] = "done" => Status(t) = "Failed"

C10_Witness ==
    \E t \in Tasks :
        /\ AdvisorFaulted(t)
        /\ pc[t] = "done"

\* The notifier's delivery failed: a non-zero code or a transport fault.
DeliveryFailed(t) ==
    \E i \in DOMAIN NotifyRets(t) : NotifyRets(t)[i].b[1] \in {"rejected", "fault"}

\* C11: a delivery failure of the notifier is not raised into the pipeline
\* and changes nothing of the task's outcome: the task ends, Succeeded or
\* Failed as the notification it sent says, never Errored, and the notifier
\* is not invoked a second time.
C11_DeliveryFailureSwallowed ==
    \A t \in Tasks :
        DeliveryFailed(t) =>
            /\ Len(NotifyRets(t)) = 1
            /\ NotifyRets(t)[1].b[2] = "returned"
            /\ Len(Notifs(t)) = 1
            /\ pc[t] = "done"
            /\ Status(t) = (IF TitleKind(Notifs(t)[1]) = "deploy-succeeded"
                            THEN "Succeeded" ELSE "Failed")
            /\ TitleKind(Notifs(t)[1]) \in {"deploy-succeeded", "deploy-failed"}

C11_Witness ==
    \E t \in Tasks :
        /\ pc[t] = "done"
        /\ NotifyRets(t)[1].b[1] = "rejected"
        /\ Status(t) = "Succeeded"

\* The acknowledgments match the tasks created, one each and in order, and
\* no task has sent its notification without its acknowledgment given.
C12_OneTaskPerAck ==
    /\ Len(acks) = Cardinality(Spawned)
    /\ \A t \in Spawned :
        /\ t <= Len(acks)
        /\ acks[t] = [code |-> 200, task_id |-> task_id[t]]

\* The step that gives an acknowledgment creates one task and runs no part
\* of any pipeline.
C12_AckWithoutWaiting ==
    Len(acks') > Len(acks) =>
        /\ Len(acks') = Len(acks) + 1
        /\ \E t \in Tasks :
            /\ pc[t] = "idle" /\ pc'[t] = "spawned"
            /\ \A u \in Tasks \ {t} : pc'[u] = pc[u]
        /\ events' = events
        /\ notify_content' = notify_content

\* C12: each call of deploy_web creates exactly one pipeline task and gives
\* its acknowledgment, with the task's id, in the same step, before any stage
\* of that pipeline has run and so before its notification, whether or not
\* the pipeline ever completes.
C12_AckImmediately ==
    /\ []C12_OneTaskPerAck
    /\ [][C12_AckWithoutWaiting]_vars

C12_Witness ==
    /\ Len(acks) = 2
    /\ pc[1] = "done"
    /\ pc[2] = "spawned"

\* The clone of task t ran its course and was handed back: it completed, or
\* it found the directory taken, or it lost the directory it was writing.
CloneRanItsCourse(t) ==
    /\ outcomes[t]["Cloning"].kind = "ok"
    /\ proc[t]["Cloning"] \in {"done", "refused", "cleaned"}

\* C13: when two tasks for the same application name run concurrently, under
\* every interleaving of their delete-directory and clone steps neither task
\* crashes, each task that ends has sent its notification, and, when no clone
\* failed or hung of itself, at least one of the two clones has completed
\* into the shared deploy directory.
C13_RaceLeavesOneClone ==
    \A t, u \in Tasks :
        (t # u /\ pc[t] # "idle" /\ pc[u] # "idle"
              /\ req[t].app_name = req[u].app_name) =>
            /\ pc[t] # "crashed"
            /\ Finished(t) => Len(Notifs(t)) = 1
            /\ (pc[t] = "done" /\ pc[u] = "done"
                  /\ CloneRanItsCourse(t) /\ CloneRanItsCourse(u)) =>
                    (proc[t]["Cloning"] = "done" \/ proc[u]["Cloning"] = "done")

\* The stages of task t that have a subprocess running; rm -rf belongs to
\* step 1, the Cloning stage.
RunningStages(t) ==
    {IF s = "Cleanup" THEN "Cloning" ELSE s : s \in {x \in ProcStages : proc[t][x] \in Alive}}

\* C14: within one task, at no time are the subprocesses of two different
\* stages running at once, also after a stage command has exceeded its
\* timeout.
C14_OneStageAtATime ==
    \A t \in Tasks : Cardinality(RunningStages(t)) <= 1

\* Task u is at a point where only the loop's attention is missing for it to
\* go on: its settle delay is running, or its command's deadline has passed.
Resumable(u) ==
    \/ pc[u] = "sleep"
    \/ pc[u] = "spawned"
    \/ pc[u] \in ExecPcs /\ elapsed[u] >= TIMEOUT

CanGoOn(u) ==
    \/ ENABLED Begin(u)
    \/ ENABLED SleepReturn(u)
    \/ ENABLED RmReturn(u, TimedOut)
    \/ ENABLED CloneReturn(u, TimedOut)
    \/ ENABLED InstallReturn(u, TimedOut)
    \/ ENABLED StartReturn(u, TimedOut)
    \/ ENABLED VerifyReturn(u, TimedOut)

\* C15: every advisor call is a suspension point: while one task is waiting
\* for the advisor's answer, another task that is ready to go on can go on,
\* and a newly arriving request can be accepted, as during an executor call
\* or the settle delay.
C15_AdvisorCallSuspends ==
    \A t \in Tasks : pc[t] = "advise" =>
        /\ \A u \in Tasks : Resumable(u) => CanGoOn(u)
        /\ (\E u \in Tasks : pc[u] = "idle") =>
              \E r \in SchedRequests, now \in LoopTimes : ENABLED deploy_web(r, now)

\* The advisor call at position i of task t's calls follows a failing stage:
\* a completed clone whose result mentions a keyword, or a failed probe.
AfterFailingStage(t, i) ==
    /\ i > 1
    /\ events[t][i - 1].ev = "exec"
    /\ \/ /\ events[t][i - 1].b = <<"Cloning">>
          /\ outcomes[t]["Cloning"].kind # "none"
          /\ MentionsKeyword(events[t][i].a)
       \/ /\ events[t][i - 1].b = <<"Verifying">>
          /\ outcomes[t]["Verifying"].kind # "none"
          /\ events[t][i].a = VerifyContext(req[t])

StageOrder == <<"Cloning", "Installing", "Starting", "Verifying">>

StageHeaders ==
    {"#### step1: pull code", "#### step2: install dependencies",
     "#### step3: start service", "#### step4: verify service"}

StageOfHeader(h) ==
    CASE h = "#### step1: pull code" -> "Cloning"
      [] h = "#### step2: install dependencies" -> "Installing"
      [] h = "#### step3: start service" -> "Starting"
      [] OTHER -> "Verifying"

\* The stage sections of a notification body, in the order they stand in it.
Sections(body) ==
    LET hs == SelectSeq(body, LAMBDA x : x \in StageHeaders)
    IN  [i \in DOMAIN hs |-> StageOfHeader(hs[i])]

\* The stages task t has attempted: those it has started a command of.
Attempted(t) ==
    {IF e.b = <<"Cleanup">> THEN "Cloning" ELSE e.b[1] :
        e \in {Execs(t)[i] : i \in DOMAIN Execs(t)}}

C17_SectionsArePrefix ==
    \A t \in Tasks :
        /\ IsPrefix(Sections(notify_content[t]), StageOrder)
        /\ {Sections(notify_content[t])[i] : i \in DOMAIN Sections(notify_content[t])}
              = Attempted(t)

C17_SectionsOnlyGrow ==
    \A t \in Tasks : IsPrefix(Sections(notify_content[t]), Sections(notify_content'[t]))

\* C17: in every state of a pipeline run the stage sections of the
\* notification body are a prefix of Cloning, Installing, Starting,
\* Verifying, with exactly one section per stage attempted so far; a section,
\* once appended, is never removed or reordered.
C17_StageLogInOrder == []C17_SectionsArePrefix /\ [][C17_SectionsOnlyGrow]_vars

C17_Witness ==
    \E t \in Tasks :
        /\ Status(t) = "Errored"
        /\ Sections(notify_content[t]) = <<"Cloning", "Installing", "Starting">>

\* C18: the clone-stage classification is a function of the clone command's
\* captured output only: two runs whose clone commands produced the same
\* output are both failed at Cloning or both taken on to Installing, even
\* when their requests differ in repository URL or application name.
C18_SameOutputSameClass ==
    \A t, u \in Tasks :
        (/\ outcomes[t]["Cloning"].kind = "ok"
         /\ outcomes[u]["Cloning"] = outcomes[t]["Cloning"]) =>
            (Executed(t, "Installing") <=> Executed(u, "Installing"))

\* C19: any two accepted requests that differ in application name, in port,
\* or in the time at which they were accepted receive different task ids.
C19_TaskIdsDiffer ==
    \A t, u \in Spawned :
        (\/ req[t].app_name # req[u].app_name
         \/ req[t].port # req[u].port
         \/ accepted[t] # accepted[u]) => task_id[t] # task_id[u]

\* C20: every spawned pipeline task eventually terminates with its terminal
\* notification sent, under fair scheduling and with every advisor and
\* notifier call returning, whatever the stage commands do.
C20_EveryTaskTerminates ==
    \A t \in Tasks : (pc[t] = "spawned") ~> (pc[t] = "done" /\ Len(Notifs(t)) = 1)

C20_Witness ==
    \E t \in Tasks :
        /\ pc[t] = "done"
        /\ Len(Notifs(t)) = 1
        /\ \A s \in Stages : outcomes[t][s].kind = "timeout"
        /\ \A s \in ProcStages : proc[t][s] \in Alive
====
